---- MODULE Spec2Model ----
(***************************************************************************)
(* Honeywell Lyric (lyric_my) sensor and binary_sensor platforms.          *)
(*                                                                         *)
(* The model covers the two helper functions of sensor.py                  *)
(* (get_setpoint_status, get_datetime_from_future_time), the descriptor    *)
(* tables, the two async_setup_entry callbacks and the native_value        *)
(* property of the leak sensor entity.                                     *)
(***************************************************************************)
EXTENDS Integers, Sequences, FiniteSets, TLC

VARIABLES
    call,             \* the last helper call: its arguments, what it read, its outcome
    data,             \* coordinator.data: locations (with devices) and rooms_dict
    sensor_pc,        \* position of sensor.async_setup_entry
    sensor_added,     \* entities handed to async_add_entities by sensor.py
    binary_pc,        \* position of binary_sensor.async_setup_entry
    binary_added,     \* entities handed to async_add_entities by binary_sensor.py
    read              \* the last native_value read of a registered leak sensor

vars == <<call, data, sensor_pc, sensor_added, binary_pc, binary_added, read>>

(***************************************************************************)
(* Python values.  Every value carries its type, so that truthiness,       *)
(* str() and subscripting can be computed as the interpreter computes them.*)
(***************************************************************************)
None == [t |-> "none"]
StrVal(s) == [t |-> "str", v |-> s]
IntVal(i) == [t |-> "int", v |-> i]
BoolVal(b) == [t |-> "bool", v |-> b]
DictVal(d) == [t |-> "dict", v |-> d]
Raise(e) == [t |-> "raise", v |-> e]

EmptyDict == [k \in {} |-> None]

\* bool(x) for the value kinds above
Truthy(x) ==
    CASE x.t = "none" -> FALSE
      [] x.t = "str"  -> x.v # ""
      [] x.t = "int"  -> x.v # 0
      [] x.t = "bool" -> x.v
      [] x.t = "dict" -> DOMAIN x.v # {}
      [] OTHER        -> TRUE

\* mapping.get(key): the stored value, None when the key is absent
Get(d, k) == IF k \in DOMAIN d THEN d[k] ELSE None

\* x[key]: TypeError when x is None (or not subscriptable), KeyError when absent
Subscript(x, k) ==
    IF x.t = "raise" THEN x
    ELSE IF x.t # "dict" THEN Raise("TypeError")
    ELSE IF k \in DOMAIN x.v THEN x.v[k]
    ELSE Raise("KeyError")

\* abs(x): TypeError on None
Abs(x) ==
    IF x.t = "int" THEN IntVal(IF x.v < 0 THEN -x.v ELSE x.v)
    ELSE Raise("TypeError")

(***************************************************************************)
(* const.py preset tokens, imported by sensor.py                           *)
(***************************************************************************)
PRESET_HOLD_UNTIL == "HoldUntil"
PRESET_NO_HOLD == "NoHold"
PRESET_PERMANENT_HOLD == "PermanentHold"
PRESET_TEMPORARY_HOLD == "TemporaryHold"
PRESET_VACATION_HOLD == "VacationHold"

\* mutant: the labels of the two timed holds exchanged
LYRIC_SETPOINT_STATUS_NAMES_swapped ==
    (PRESET_NO_HOLD :> "Following Schedule")
    @@ (PRESET_PERMANENT_HOLD :> "Held Temporarily")
    @@ (PRESET_TEMPORARY_HOLD :> "Held Permanently")
    @@ (PRESET_VACATION_HOLD :> "Holiday")

LYRIC_SETPOINT_STATUS_NAMES ==
    (PRESET_NO_HOLD :> "Following Schedule")
    @@ (PRESET_PERMANENT_HOLD :> "Held Permanently")
    @@ (PRESET_TEMPORARY_HOLD :> "Held Temporarily")
    @@ (PRESET_VACATION_HOLD :> "Holiday")

(***************************************************************************)
(* Input strings.  A time string is text; CharsOf gives the characters of  *)
(* each string of the input universe, which parse_time works on.           *)
(***************************************************************************)
TimeStrings ==
    { "12:00:00", "12:00", "00:00:00", "23:59:59", "11:59:59", "7:5",
      "12:00:00:30", "24:00:00", "12:60:00", "12:00:60", "-1:00:00",
      "not-a-time", "12", "", "12::00", "None" }

CharsOf(s) ==
    CASE s = "12:00:00"    -> <<"1","2",":","0","0",":","0","0">>
      [] s = "12:00"       -> <<"1","2",":","0","0">>
      [] s = "00:00:00"    -> <<"0","0",":","0","0",":","0","0">>
      [] s = "23:59:59"    -> <<"2","3",":","5","9",":","5","9">>
      [] s = "11:59:59"    -> <<"1","1",":","5","9",":","5","9">>
      [] s = "7:5"         -> <<"7",":","5">>
      [] s = "12:00:00:30" -> <<"1","2",":","0","0",":","0","0",":","3","0">>
      [] s = "24:00:00"    -> <<"2","4",":","0","0",":","0","0">>
      [] s = "12:60:00"    -> <<"1","2",":","6","0",":","0","0">>
      [] s = "12:00:60"    -> <<"1","2",":","0","0",":","6","0">>
      [] s = "-1:00:00"    -> <<"-","1",":","0","0",":","0","0">>
      [] s = "not-a-time"  -> <<"n","o","t","-","a","-","t","i","m","e">>
      [] s = "12"          -> <<"1","2">>
      [] s = ""            -> <<>>
      [] s = "12::00"      -> <<"1","2",":",":","0","0">>
      [] s = "None"        -> <<"N","o","n","e">>

\* str(x) as an f-string or str() renders it
str(x) ==
    CASE x.t = "str"  -> x.v
      [] x.t = "none" -> "None"
      [] x.t = "int"  -> ToString(x.v)

(***************************************************************************)
(* homeassistant.util.dt.parse_time, as called at sensor.py line 234:      *)
(*   parts = str(time_str).split(":"); fewer than two parts -> None;       *)
(*   hour = int(parts[0]); minute = int(parts[1]);                         *)
(*   second = int(parts[2]) if len(parts) > 2 else 0;                      *)
(*   return time(hour, minute, second), None on ValueError.                *)
(***************************************************************************)
Digits == {"0","1","2","3","4","5","6","7","8","9"}

DigitValue(c) ==
    CASE c = "0" -> 0 [] c = "1" -> 1 [] c = "2" -> 2 [] c = "3" -> 3
      [] c = "4" -> 4 [] c = "5" -> 5 [] c = "6" -> 6 [] c = "7" -> 7
      [] c = "8" -> 8 [] c = "9" -> 9

\* chars.split(":")
RECURSIVE SplitFrom(_, _, _)
SplitFrom(chars, i, cur) ==
    IF i > Len(chars) THEN <<cur>>
    ELSE IF chars[i] = ":" THEN <<cur>> \o SplitFrom(chars, i + 1, <<>>)
    ELSE SplitFrom(chars, i + 1, Append(cur, chars[i]))

Split(chars) == SplitFrom(chars, 1, <<>>)

RECURSIVE DecimalValue(_)
DecimalValue(ds) ==
    IF ds = <<>> THEN 0
    ELSE 10 * DecimalValue(SubSeq(ds, 1, Len(ds) - 1)) + DigitValue(ds[Len(ds)])

\* int(part): an optional sign and at least one digit; anything else is a
\* ValueError (int() also skips surrounding blanks and single underscores
\* between digits; no string of TimeStrings has either)
ParseInt(part) ==
    LET signed == part # <<>> /\ part[1] \in {"+", "-"}
        ds == IF signed THEN Tail(part) ELSE part
    IN  IF ds # <<>> /\ \A i \in 1..Len(ds) : ds[i] \in Digits
        THEN [ok |-> TRUE,
              v |-> IF signed /\ part[1] = "-" THEN -DecimalValue(ds) ELSE DecimalValue(ds)]
        ELSE [ok |-> FALSE, v |-> 0]

\* datetime.time(hour, minute, second)
Time(h, m, s, us) == [hour |-> h, minute |-> m, second |-> s, microsecond |-> us]

NoTime == [hour |-> -1, minute |-> -1, second |-> -1, microsecond |-> -1]

parse_time(time_str) ==
    LET parts == Split(CharsOf(str(time_str)))
    IN  IF Len(parts) < 2 THEN NoTime
        ELSE LET hour == ParseInt(parts[1])
                 minute == ParseInt(parts[2])
                 second == IF Len(parts) > 2 THEN ParseInt(parts[3])
                                             ELSE [ok |-> TRUE, v |-> 0]
             IN  IF /\ hour.ok /\ minute.ok /\ second.ok
                    /\ hour.v \in 0..23 /\ minute.v \in 0..59 /\ second.v \in 0..59
                 THEN Time(hour.v, minute.v, second.v, 0)
                 ELSE NoTime

(***************************************************************************)
(* datetime values: a date is a day ordinal, a time is a time of day.      *)
(***************************************************************************)
DateTime(d, tm) == [t |-> "datetime", date |-> d, time |-> tm, tzinfo |-> "UTC"]

\* time <= other, as datetime.time compares (hour, minute, second, microsecond)
TimeLE(a, b) ==
    \/ a.hour < b.hour
    \/ a.hour = b.hour /\ a.minute < b.minute
    \/ a.hour = b.hour /\ a.minute = b.minute /\ a.second < b.second
    \/ a.hour = b.hour /\ a.minute = b.minute /\ a.second = b.second
       /\ a.microsecond <= b.microsecond

\* now + timedelta(days=1)
PlusOneDay(now) == [now EXCEPT !.date = @ + 1]

\* homeassistant.util.dt.as_utc on the naive datetime.combine(date, time): a
\* datetime without tzinfo is taken to be in DEFAULT_TIME_ZONE (tz, hours east
\* of UTC) and converted to UTC
as_utc(date, tm, tz) ==
    LET h == tm.hour - tz
    IN  IF h < 0 THEN DateTime(date - 1, [tm EXCEPT !.hour = h + 24])
        ELSE IF h > 23 THEN DateTime(date + 1, [tm EXCEPT !.hour = h - 24])
        ELSE DateTime(date, [tm EXCEPT !.hour = h])

(***************************************************************************)
(* sensor.py: the two helpers                                              *)
(***************************************************************************)
\* mutant: the label table is tried first, the hold-until text is the fallback
get_setpoint_status_table_first(status, time) ==
    IF status.t = "str" /\ status.v \in DOMAIN LYRIC_SETPOINT_STATUS_NAMES
    THEN [value |-> StrVal(LYRIC_SETPOINT_STATUS_NAMES[status.v]), looked_up |-> TRUE]
    ELSE [value |-> IF status = StrVal(PRESET_HOLD_UNTIL)
                    THEN StrVal("Held until " \o str(time)) ELSE None,
          looked_up |-> TRUE]

\* mutant: the table is subscripted instead of read with .get()
get_setpoint_status_subscript(status, time) ==
    IF status = StrVal(PRESET_HOLD_UNTIL)
    THEN [value |-> StrVal("Held until " \o str(time)), looked_up |-> FALSE]
    ELSE [value |-> IF status.t = "str" /\ status.v \in DOMAIN LYRIC_SETPOINT_STATUS_NAMES
                    THEN StrVal(LYRIC_SETPOINT_STATUS_NAMES[status.v])
                    ELSE Raise("KeyError"),
          looked_up |-> TRUE]

\* get_setpoint_status(status, time); looked_up records whether the label
\* table was consulted
get_setpoint_status(status, time) ==
    IF status = StrVal(PRESET_HOLD_UNTIL)
    THEN [value |-> StrVal("Held until " \o str(time)), looked_up |-> FALSE]
    ELSE [value |-> IF status.t = "str" /\ status.v \in DOMAIN LYRIC_SETPOINT_STATUS_NAMES
                    THEN StrVal(LYRIC_SETPOINT_STATUS_NAMES[status.v])
                    ELSE None,
          looked_up |-> TRUE]

\* mutant: the None check after parse_time is missing, so the comparison with
\* now.time() raises TypeError after utcnow() was called
get_datetime_from_future_time_unchecked(time_str, utcnow, tz) ==
    LET time == parse_time(time_str)
    IN  IF time = NoTime
        THEN [value |-> Raise("TypeError"), now_read |-> TRUE]
        ELSE LET now == IF TimeLE(time, utcnow.time) THEN PlusOneDay(utcnow) ELSE utcnow
             IN  [value |-> as_utc(now.date, time, tz), now_read |-> TRUE]

\* get_datetime_from_future_time(time_str) called when dt_util.utcnow() is
\* utcnow and DEFAULT_TIME_ZONE is tz; now_read records whether utcnow() was
\* called
get_datetime_from_future_time(time_str, utcnow, tz) ==
    LET time == parse_time(time_str)
    IN  IF time = NoTime
        THEN [value |-> Raise("ValueError"), now_read |-> FALSE]
        ELSE LET now == IF TimeLE(time, utcnow.time) THEN PlusOneDay(utcnow) ELSE utcnow
             IN  [value |-> as_utc(now.date, time, tz), now_read |-> TRUE]

(***************************************************************************)
(* Descriptor tables                                                       *)
(***************************************************************************)
Descriptor(k, tk, dc, unit) ==
    [key |-> k, translation_key |-> tk, device_class |-> dc,
     native_unit_of_measurement |-> unit]

TEMPERATURE == "temperature"
HUMIDITY == "humidity"
PERCENTAGE == "%"
FAHRENHEIT == "F"
CELSIUS == "C"
NoUnit == "unset"

DEVICE_SENSORS ==
    << Descriptor("indoor_temperature", "indoor_temperature", TEMPERATURE, NoUnit),
       Descriptor("indoor_humidity", "indoor_humidity", HUMIDITY, PERCENTAGE),
       Descriptor("outdoor_temperature", "outdoor_temperature", TEMPERATURE, NoUnit),
       Descriptor("outdoor_humidity", "outdoor_humidity", HUMIDITY, PERCENTAGE),
       Descriptor("next_period_time", "next_period_time", "timestamp", NoUnit),
       Descriptor("setpoint_status", "setpoint_status", "none", NoUnit) >>

ACCESSORY_SENSORS ==
    << Descriptor("room_temperature", "room_temperature", TEMPERATURE, NoUnit),
       Descriptor("room_humidity", "room_humidity", HUMIDITY, PERCENTAGE) >>

LEAK_SENSORS ==
    << Descriptor("temperature", "temperature", TEMPERATURE, NoUnit),
       Descriptor("WarnTempMax", "warn_temp_max", TEMPERATURE, NoUnit),
       Descriptor("WarnTempMin", "warn_temp_low", TEMPERATURE, NoUnit),
       Descriptor("humidity", "humidity", HUMIDITY, NoUnit),
       Descriptor("WarnHumMax", "warn_hum_max", HUMIDITY, NoUnit),
       Descriptor("WarnHumMin", "warn_hum_low", HUMIDITY, NoUnit),
       Descriptor("Battery", "battery", "battery", NoUnit),
       Descriptor("WiFi", "wifi", "signal_strength", NoUnit),
       Descriptor("LastCheckin", "last_checkin", "none", NoUnit) >>

DEVICE_BINARY_SENSORS ==
    << Descriptor("Water Present", "waterPresent", "moisture", NoUnit),
       Descriptor("Alive", "isAlive", "connectivity", NoUnit) >>

(***************************************************************************)
(* Device, room and accessory records of the client library: each wraps    *)
(* the attribute mapping the cloud API returned.                           *)
(***************************************************************************)
\* a and b, as Python evaluates it: a when a is falsy, b otherwise
And(a, b) == IF Truthy(a) THEN b ELSE a

\* device.changeable_values: a wrapper object around the "changeableValues"
\* mapping, whose properties are .get() reads of that mapping
changeable_values(device) ==
    LET cv == Get(device.attributes, "changeableValues")
    IN  [t |-> "object", v |-> IF cv.t = "dict" THEN cv.v ELSE EmptyDict]

mac_id(device) == Get(device.attributes, "macID")
device_id(device) == Get(device.attributes, "deviceID")
units(device) == Get(device.attributes, "units")

\* suitable_fn of the DEVICE_SENSORS descriptor with this key
DeviceSensorSuitable(key, device) ==
    CASE key = "indoor_temperature" -> Get(device.attributes, "indoorTemperature")
      [] key = "indoor_humidity" -> Get(device.attributes, "indoorHumidity")
      [] key = "outdoor_temperature" -> Get(device.attributes, "outdoorTemperature")
      [] key = "outdoor_humidity" -> Get(device.attributes, "displayedOutdoorHumidity")
      [] key = "next_period_time" ->
            And(changeable_values(device),
                Get(changeable_values(device).v, "nextPeriodTime"))
      [] key = "setpoint_status" ->
            And(changeable_values(device),
                Get(changeable_values(device).v, "thermostatSetpointStatus"))

\* suitable_fn of the ACCESSORY_SENSORS descriptors
AccessorySensorSuitable(key, room, accessory) ==
    BoolVal(accessory.type = "IndoorAirSensor")

\* value_fn of the LEAK_SENSORS descriptor with this key
LeakSensorValue(key, device) ==
    LET a == device.attributes
    IN  CASE key = "temperature" ->
                Subscript(Get(a, "currentSensorReadings"), "temperature")
          [] key = "WarnTempMax" ->
                Subscript(Subscript(Subscript(Get(a, "deviceSettings"), "temp"), "high"), "limit")
          [] key = "WarnTempMin" ->
                Subscript(Subscript(Subscript(Get(a, "deviceSettings"), "temp"), "low"), "limit")
          [] key = "humidity" ->
                Subscript(Get(a, "currentSensorReadings"), "humidity")
          [] key = "WarnHumMax" ->
                Subscript(Subscript(Subscript(Get(a, "deviceSettings"), "humidity"), "high"), "limit")
          [] key = "WarnHumMin" ->
                Subscript(Subscript(Subscript(Get(a, "deviceSettings"), "humidity"), "low"), "limit")
          [] key = "Battery" -> Get(a, "batteryRemaining")
          [] key = "WiFi" -> Abs(Get(a, "wifiSignalStrength"))
          [] key = "LastCheckin" -> Get(a, "lastCheckin")

\* suitable_fn of the LEAK_SENSORS descriptor with this key
LeakSensorSuitable(key, device) ==
    LET a == device.attributes
    IN  CASE key \in {"temperature", "WarnTempMax", "WarnTempMin",
                      "humidity", "WarnHumMax", "WarnHumMin"} ->
                Get(a, "currentSensorReadings")
          [] key = "Battery" -> Get(a, "batteryRemaining")
          [] key = "WiFi" -> Abs(Get(a, "wifiSignalStrength"))
          [] key = "LastCheckin" -> Get(a, "lastCheckin")

\* suitable_fn of the DEVICE_BINARY_SENSORS descriptor with this key
BinarySensorSuitable(key, device) ==
    CASE key = "Water Present" -> Get(device.attributes, "waterPresent")
      [] key = "Alive" -> Get(device.attributes, "isAlive")

(***************************************************************************)
(* Bounds and the input universe                                           *)
(***************************************************************************)
MaxDay == 1          \* utcnow() falls on a day 0..MaxDay
MaxTzOffset == 1     \* DEFAULT_TIME_ZONE is -MaxTzOffset..MaxTzOffset hours east of UTC
MaxLocations == 2    \* locations of coordinator.data
MaxDevices == 2      \* devices of coordinator.data, over all locations

NowHours == {0, 11, 12, 13, 23}
NowMinutes == {0, 59}
NowSeconds == {0, 59}
NowMicroseconds == {0, 1}

Instants ==
    { DateTime(d, Time(h, m, sec, us)) :
        d \in 0..MaxDay, h \in NowHours, m \in NowMinutes,
        sec \in NowSeconds, us \in NowMicroseconds }

TimeZones == (0 - MaxTzOffset)..MaxTzOffset

\* time_str arguments: the strings, and None (an absent nextPeriodTime)
TimeArgs == { StrVal(s) : s \in TimeStrings \ {"None"} } \cup {None}

StatusArgs ==
    { StrVal(s) : s \in { PRESET_HOLD_UNTIL, PRESET_NO_HOLD, PRESET_PERMANENT_HOLD,
                          PRESET_TEMPORARY_HOLD, PRESET_VACATION_HOLD,
                          "holduntil", "Unknown", "" } } \cup {None}

Limit(n) == DictVal("limit" :> IntVal(n))
Limits(hi, lo) == DictVal(("high" :> Limit(hi)) @@ ("low" :> Limit(lo)))

ThermostatFull ==
    [attributes |->
        ("deviceID" :> StrVal("LCC-A")) @@ ("macID" :> StrVal("MAC_A"))
        @@ ("units" :> StrVal("Fahrenheit"))
        @@ ("indoorTemperature" :> IntVal(70)) @@ ("indoorHumidity" :> IntVal(45))
        @@ ("outdoorTemperature" :> IntVal(50))
        @@ ("displayedOutdoorHumidity" :> IntVal(60))
        @@ ("changeableValues" :>
                DictVal(("nextPeriodTime" :> StrVal("12:00:00"))
                        @@ ("thermostatSetpointStatus" :> StrVal(PRESET_HOLD_UNTIL))))
        @@ ("deviceSettings" :> DictVal(EmptyDict))]

ThermostatSparse ==
    [attributes |->
        ("deviceID" :> StrVal("LCC-B")) @@ ("macID" :> StrVal("MAC_B"))
        @@ ("units" :> StrVal("Celsius"))
        @@ ("indoorTemperature" :> IntVal(0))
        @@ ("outdoorTemperature" :> IntVal(5))
        @@ ("changeableValues" :>
                DictVal("thermostatSetpointStatus" :> StrVal(PRESET_NO_HOLD)))]

LeakFull ==
    [attributes |->
        ("deviceID" :> StrVal("LEAK-1"))
        @@ ("currentSensorReadings" :>
                DictVal(("temperature" :> IntVal(21)) @@ ("humidity" :> IntVal(40))))
        @@ ("deviceSettings" :>
                DictVal(("userDefinedName" :> StrVal("Basement"))
                        @@ ("temp" :> Limits(38, 7)) @@ ("humidity" :> Limits(80, 20))))
        @@ ("batteryRemaining" :> IntVal(80))
        @@ ("wifiSignalStrength" :> IntVal(-60))
        @@ ("lastCheckin" :> StrVal("2024-01-01T00:00:00Z"))
        @@ ("waterPresent" :> BoolVal(FALSE)) @@ ("isAlive" :> BoolVal(TRUE))]

LeakSparse ==
    [attributes |->
        ("deviceID" :> StrVal("LEAK-2"))
        @@ ("deviceSettings" :> DictVal("userDefinedName" :> StrVal("Garage")))
        @@ ("batteryRemaining" :> IntVal(0))
        @@ ("waterPresent" :> BoolVal(TRUE))]

\* a second leak detector that its owner also named "Basement"
LeakTwin ==
    [attributes |->
        ("deviceID" :> StrVal("LEAK-3"))
        @@ ("deviceSettings" :> DictVal("userDefinedName" :> StrVal("Basement")))
        @@ ("batteryRemaining" :> IntVal(55))
        @@ ("waterPresent" :> BoolVal(FALSE)) @@ ("isAlive" :> BoolVal(TRUE))]

DeviceUniverse == {ThermostatFull, ThermostatSparse, LeakFull, LeakSparse, LeakTwin}

Accessory(i, ty) == [id |-> i, type |-> ty]
Room(i, accs) == [id |-> i, accessories |-> accs]

\* rooms_dict: mac id -> the rooms of that thermostat, in .values() order
RoomsUniverse ==
    { [m \in {} |-> <<>>],
      "MAC_A" :> << Room(0, << Accessory(0, "Thermostat"),
                               Accessory(1, "IndoorAirSensor") >>) >>,
      ("MAC_A" :> << Room(0, << Accessory(0, "Thermostat") >>),
                     Room(1, << Accessory(0, "IndoorAirSensor"),
                                Accessory(1, "IndoorAirSensor") >>) >>)
      @@ ("MAC_B" :> << Room(0, << Accessory(0, "IndoorAirSensor") >>) >>) }

SeqsUpTo(S, n) == UNION { [1..k -> S] : k \in 0..n }

RECURSIVE SumLen(_)
SumLen(locations) ==
    IF locations = <<>> THEN 0
    ELSE Len(Head(locations).devices) + SumLen(Tail(locations))

\* the devices of a list are pairwise different
Distinct(ds) == \A i, j \in 1..Len(ds) : i # j => ds[i] # ds[j]

RECURSIVE AllDevices(_)
AllDevices(locations) ==
    IF locations = <<>> THEN <<>>
    ELSE Head(locations).devices \o AllDevices(Tail(locations))

LocationUniverse ==
    { [devices |-> ds] : ds \in { x \in SeqsUpTo(DeviceUniverse, MaxDevices) : Distinct(x) } }

\* the cloud API lists every device of the account once, under one location
DataUniverse ==
    { [locations |-> ls, rooms_dict |-> rd] :
        ls \in { x \in SeqsUpTo(LocationUniverse, MaxLocations) :
                    SumLen(x) <= MaxDevices /\ Distinct(AllDevices(x)) },
        rd \in RoomsUniverse }

NoData == [locations |-> <<>>, rooms_dict |-> [m \in {} |-> <<>>]]

(***************************************************************************)
(* Entity constructors                                                     *)
(***************************************************************************)
Entity(cls, l, d, r, a, desc, uid, unit) ==
    [t |-> "entity", cls |-> cls, loc |-> l, dev |-> d, room |-> r, acc |-> a,
     key |-> desc.key, unique_id |-> uid, attr_unit |-> unit]

\* mutant: Celsius is the value tested for, so absent units select Fahrenheit
TemperatureUnit_celsius_tested(desc, device) ==
    IF desc.device_class = TEMPERATURE
    THEN IF units(device) = StrVal("Celsius") THEN CELSIUS ELSE FAHRENHEIT
    ELSE NoUnit

TemperatureUnit(desc, device) ==
    IF desc.device_class = TEMPERATURE
    THEN IF units(device) = StrVal("Fahrenheit") THEN FAHRENHEIT ELSE CELSIUS
    ELSE NoUnit

\* LyricSensor.__init__
LyricSensor(l, d, desc, device) ==
    Entity("LyricSensor", l, d, 0, 0, desc,
           str(mac_id(device)) \o "_" \o desc.key,
           TemperatureUnit(desc, device))

\* LyricLeakSensor.__init__
LyricLeakSensor(l, d, desc, device) ==
    Entity("LyricLeakSensor", l, d, 0, 0, desc,
           str(device_id(device)) \o "_" \o desc.key,
           IF desc.device_class = HUMIDITY THEN PERCENTAGE
           ELSE TemperatureUnit(desc, device))

\* LyricAccessorySensor.__init__
LyricAccessorySensor(l, d, desc, parentDevice, room, accessory) ==
    Entity("LyricAccessorySensor", l, d, room.id, accessory.id, desc,
           str(mac_id(parentDevice)) \o "_room" \o ToString(room.id)
               \o "_acc" \o ToString(accessory.id) \o "_" \o desc.key,
           TemperatureUnit(desc, parentDevice))

\* LyricLeakBinarySensor.__init__: the unique id subscripts
\* device.attributes.get("deviceSettings", None), which raises when the
\* mapping or its "userDefinedName" is absent
LyricLeakBinarySensor(l, d, desc, device) ==
    LET name == Subscript(Get(device.attributes, "deviceSettings"), "userDefinedName")
    IN  IF name.t = "raise" THEN name
        ELSE Entity("LyricLeakBinarySensor", l, d, 0, 0, desc,
                    str(name) \o "_" \o desc.translation_key, NoUnit)

(***************************************************************************)
(* The generator expressions of the two async_setup_entry callbacks        *)
(***************************************************************************)
RECURSIVE Concat(_)
Concat(ss) == IF ss = <<>> THEN <<>> ELSE Head(ss) \o Concat(Tail(ss))

\* for location in locations for device in location.devices: <<l, d>>
DevicePairs(dat) ==
    Concat([l \in 1..Len(dat.locations) |->
              [d \in 1..Len(dat.locations[l].devices) |-> <<l, d>>]])

DeviceAt(dat, p) == dat.locations[p[1]].devices[p[2]]

\* mutant: the "if device_sensor.suitable_fn(device)" clause is missing, as it
\* is for the leak sensors
SensorEntities_unfiltered(dat) ==
    LET ps == DevicePairs(dat)
    IN  Concat([i \in 1..Len(ps) |->
          [k \in 1..Len(DEVICE_SENSORS) |->
              LyricSensor(ps[i][1], ps[i][2], DEVICE_SENSORS[k], DeviceAt(dat, ps[i]))]])

\* sensor.py, first async_add_entities call
SensorEntities(dat) ==
    LET ps == DevicePairs(dat)
    IN  Concat([i \in 1..Len(ps) |->
          LET device == DeviceAt(dat, ps[i])
              suitable(desc) == Truthy(DeviceSensorSuitable(desc.key, device))
              picked == SelectSeq(DEVICE_SENSORS, suitable)
          IN  [k \in 1..Len(picked) |-> LyricSensor(ps[i][1], ps[i][2], picked[k], device)]])

\* sensor.py, second async_add_entities call
LeakEntities(dat) ==
    LET ps == DevicePairs(dat)
    IN  Concat([i \in 1..Len(ps) |->
          [k \in 1..Len(LEAK_SENSORS) |->
              LyricLeakSensor(ps[i][1], ps[i][2], LEAK_SENSORS[k], DeviceAt(dat, ps[i]))]])

\* coordinator.data.rooms_dict.get(device.mac_id, {}).values()
RoomsOf(dat, device) ==
    LET mac == mac_id(device)
    IN  IF mac.t = "str" /\ mac.v \in DOMAIN dat.rooms_dict
        THEN dat.rooms_dict[mac.v] ELSE <<>>

\* sensor.py, third async_add_entities call
AccessoryEntities(dat) ==
    LET ps == DevicePairs(dat)
    IN  Concat([i \in 1..Len(ps) |->
          LET device == DeviceAt(dat, ps[i])
              rooms == RoomsOf(dat, device)
          IN  Concat([r \in 1..Len(rooms) |->
                Concat([a \in 1..Len(rooms[r].accessories) |->
                  LET room == rooms[r]
                      accessory == room.accessories[a]
                      suitable(desc) ==
                          Truthy(AccessorySensorSuitable(desc.key, room, accessory))
                      picked == SelectSeq(ACCESSORY_SENSORS, suitable)
                  IN  [k \in 1..Len(picked) |->
                         LyricAccessorySensor(ps[i][1], ps[i][2], picked[k],
                                              device, room, accessory)]])])])

\* binary_sensor.py, the async_add_entities call
BinaryEntities(dat) ==
    LET ps == DevicePairs(dat)
    IN  Concat([i \in 1..Len(ps) |->
          [k \in 1..Len(DEVICE_BINARY_SENSORS) |->
              LyricLeakBinarySensor(ps[i][1], ps[i][2], DEVICE_BINARY_SENSORS[k],
                                    DeviceAt(dat, ps[i]))]])

Raised(es) == \E i \in 1..Len(es) : es[i].t = "raise"

(***************************************************************************)
(* Actions                                                                 *)
(***************************************************************************)
NoCall == [fn |-> "none"]
NoRead == [loc |-> 0, dev |-> 0, key |-> "", value |-> None]

setup_vars == <<data, sensor_pc, sensor_added, binary_pc, binary_added, read>>

\* a caller evaluates get_setpoint_status(status, time)
CallGetSetpointStatus ==
    \E status \in StatusArgs, time \in TimeArgs :
        /\ call = NoCall
        /\ call' = [fn |-> "get_setpoint_status", status |-> status, time |-> time,
                    out |-> get_setpoint_status(status, time)]
        /\ UNCHANGED setup_vars

\* a caller evaluates get_datetime_from_future_time(time_str) at instant utcnow
\* on a host whose DEFAULT_TIME_ZONE is tz
CallGetDatetimeFromFutureTime ==
    \E time_str \in TimeArgs, utcnow \in Instants, tz \in TimeZones :
        /\ call = NoCall
        /\ call' = [fn |-> "get_datetime_from_future_time", time_str |-> time_str,
                    utcnow |-> utcnow, tz |-> tz,
                    out |-> get_datetime_from_future_time(time_str, utcnow, tz)]
        /\ UNCHANGED setup_vars

\* the caller takes the outcome; the helpers are synchronous, so the next call
\* starts after it
Return ==
    /\ call # NoCall
    /\ call' = NoCall
    /\ UNCHANGED setup_vars

\* sensor.async_setup_entry, lines 249-260
SensorSetupDeviceSensors ==
    /\ sensor_pc = "start"
    /\ sensor_added' = sensor_added \o SensorEntities(data)
    /\ sensor_pc' = "leak"
    /\ UNCHANGED <<call, data, binary_pc, binary_added, read>>

\* sensor.async_setup_entry, lines 262-272
SensorSetupLeakSensors ==
    /\ sensor_pc = "leak"
    /\ sensor_added' = sensor_added \o LeakEntities(data)
    /\ sensor_pc' = "accessory"
    /\ UNCHANGED <<call, data, binary_pc, binary_added, read>>

\* sensor.async_setup_entry, lines 274-284
SensorSetupAccessorySensors ==
    /\ sensor_pc = "accessory"
    /\ sensor_added' = sensor_added \o AccessoryEntities(data)
    /\ sensor_pc' = "done"
    /\ UNCHANGED <<call, data, binary_pc, binary_added, read>>

\* binary_sensor.async_setup_entry: an exception of a constructor leaves the
\* generator before any entity is added
BinarySetup ==
    /\ binary_pc = "start"
    /\ LET es == BinaryEntities(data)
       IN  IF Raised(es)
           THEN binary_added' = <<>> /\ binary_pc' = "raised"
           ELSE binary_added' = es /\ binary_pc' = "done"
    /\ UNCHANGED <<call, data, sensor_pc, sensor_added, read>>

\* LyricLeakSensor.native_value of an entity that setup added
ReadLeakNativeValue ==
    \E i \in 1..Len(sensor_added) :
        LET e == sensor_added[i]
        IN  /\ read = NoRead
            /\ e.cls = "LyricLeakSensor"
            /\ read' = [loc |-> e.loc, dev |-> e.dev, key |-> e.key,
                        value |-> LeakSensorValue(e.key, DeviceAt(data, <<e.loc, e.dev>>))]
            /\ UNCHANGED <<call, data, sensor_pc, sensor_added, binary_pc, binary_added>>

\* the host takes the value (or the exception) of the read; reads of entity
\* state are synchronous, so the next read starts after it
ReadDone ==
    /\ read # NoRead
    /\ read' = NoRead
    /\ UNCHANGED <<call, data, sensor_pc, sensor_added, binary_pc, binary_added>>

Init ==
    /\ call = NoCall
    /\ data = NoData
    /\ sensor_pc = "start" /\ sensor_added = <<>>
    /\ binary_pc = "start" /\ binary_added = <<>>
    /\ read = NoRead

Next == CallGetSetpointStatus \/ CallGetDatetimeFromFutureTime \/ Return

\* the two helpers, called with any arguments at any instant
Spec == Init /\ [][Next]_vars

SetupInit ==
    /\ call = NoCall
    /\ data \in DataUniverse
    /\ sensor_pc = "start" /\ sensor_added = <<>>
    /\ binary_pc = "start" /\ binary_added = <<>>
    /\ read = NoRead

SetupNext ==
    \/ SensorSetupDeviceSensors
    \/ SensorSetupLeakSensors
    \/ SensorSetupAccessorySensors
    \/ BinarySetup
    \/ ReadLeakNativeValue
    \/ ReadDone

\* the two platforms set up over any coordinator data, then polled
SetupSpec == SetupInit /\ [][SetupNext]_vars

(***************************************************************************)
(* Properties of get_datetime_from_future_time                             *)
(***************************************************************************)
ResolverCalled == call.fn = "get_datetime_from_future_time"

\* the time of day each valid time string of the input universe denotes
ValidTimeOfDay ==
    ("12:00:00" :> Time(12, 0, 0, 0)) @@ ("12:00" :> Time(12, 0, 0, 0))
    @@ ("00:00:00" :> Time(0, 0, 0, 0)) @@ ("23:59:59" :> Time(23, 59, 59, 0))
    @@ ("11:59:59" :> Time(11, 59, 59, 0)) @@ ("7:5" :> Time(7, 5, 0, 0))
    @@ ("12:00:00:30" :> Time(12, 0, 0, 0))

\* the arguments that denote no time of day
InvalidTimeArgs ==
    { StrVal(s) : s \in { "24:00:00", "12:60:00", "12:00:60", "-1:00:00",
                          "not-a-time", "12", "", "12::00" } } \cup {None}

ValidCall == ResolverCalled /\ call.time_str.t = "str"
             /\ call.time_str.v \in DOMAIN ValidTimeOfDay

ParsedTime == ValidTimeOfDay[call.time_str.v]

\* the parsed time of day is earlier than or equal to the current UTC time of day
PassedOrNow == ValidCall /\ TimeLE(ParsedTime, call.utcnow.time)

\* the parsed time of day is strictly later than the current UTC time of day
StillAhead == ValidCall /\ ~TimeLE(ParsedTime, call.utcnow.time)

\* C1 as stated: when the parsed time of day is earlier than or equal to the
\* current UTC time of day, the returned timestamp is the day after the
\* current UTC date at the parsed time of day.
C1_RollsToTomorrowUTC ==
    PassedOrNow => call.out.value = DateTime(call.utcnow.date + 1, ParsedTime)

\* C2 as stated: when the parsed time of day is strictly later than the current
\* UTC time of day, the returned timestamp is the current UTC date at the
\* parsed time of day, in UTC.
C2_StaysTodayUTC ==
    StillAhead => call.out.value = DateTime(call.utcnow.date, ParsedTime)

\* C3: an argument that is no valid time of day makes the resolver raise
\* ValueError to its caller; no timestamp is returned and utcnow() is not called.
C3_UnparseableRaises ==
    (ResolverCalled /\ call.time_str \in InvalidTimeArgs)
        => /\ call.out.value = Raise("ValueError")
           /\ ~call.out.now_read

C3_Witness ==
    /\ ResolverCalled
    /\ call.time_str = StrVal("not-a-time")
    /\ call.out.value.t = "raise"

(***************************************************************************)
(* Properties of get_setpoint_status                                       *)
(***************************************************************************)
StatusCalled == call.fn = "get_setpoint_status"

\* C4: with the hold-until code the result is "Held until " followed by the
\* text of the time argument, whatever it is, and the label table is not
\* consulted.
C4_HoldUntilFormatsTime ==
    (StatusCalled /\ call.status = StrVal(PRESET_HOLD_UNTIL))
        => /\ call.out.value.t = "str"
           /\ call.time.t = "str" => call.out.value.v = "Held until " \o call.time.v
           /\ call.time = None => call.out.value.v = "Held until None"
           /\ ~call.out.looked_up

C4_Witness ==
    /\ StatusCalled
    /\ call.status = StrVal(PRESET_HOLD_UNTIL)
    /\ call.time = StrVal("23:59:59")
    /\ call.out.value = StrVal("Held until 23:59:59")

\* C5: each of the four table codes yields exactly its label, whatever the
\* time argument is.
C5_TableCodesYieldLabels ==
    StatusCalled =>
        /\ call.status = StrVal(PRESET_NO_HOLD)
              => call.out.value = StrVal("Following Schedule")
        /\ call.status = StrVal(PRESET_PERMANENT_HOLD)
              => call.out.value = StrVal("Held Permanently")
        /\ call.status = StrVal(PRESET_TEMPORARY_HOLD)
              => call.out.value = StrVal("Held Temporarily")
        /\ call.status = StrVal(PRESET_VACATION_HOLD)
              => call.out.value = StrVal("Holiday")

C5_Witness ==
    /\ StatusCalled
    /\ call.status = StrVal(PRESET_VACATION_HOLD)
    /\ call.time = StrVal("12:00:00")
    /\ call.out.value = StrVal("Holiday")

KnownCodes ==
    { PRESET_HOLD_UNTIL, PRESET_NO_HOLD, PRESET_PERMANENT_HOLD,
      PRESET_TEMPORARY_HOLD, PRESET_VACATION_HOLD }

\* C6: a status code that is neither the hold-until code nor a key of the
\* label table yields None, and nothing is raised.
C6_UnknownCodeYieldsNone ==
    (StatusCalled /\ (call.status = None \/ call.status.v \notin KnownCodes))
        => call.out.value = None

C6_Witness ==
    /\ StatusCalled
    /\ call.status = StrVal("Unknown")
    /\ call.out.value = None

(***************************************************************************)
(* Properties of the two async_setup_entry callbacks                       *)
(***************************************************************************)
DeviceIndexes ==
    { p \in (1..MaxLocations) \X (1..MaxDevices) :
        p[1] <= Len(data.locations) /\ p[2] <= Len(data.locations[p[1]].devices) }

\* the indexes of the entities of this class that setup added for a device,
\* a room id, an accessory id and a descriptor key
EntitiesFor(added, cls, p, r, a, key) ==
    { i \in 1..Len(added) :
        /\ added[i].cls = cls /\ added[i].loc = p[1] /\ added[i].dev = p[2]
        /\ added[i].room = r /\ added[i].acc = a /\ added[i].key = key }

RoomIndexes(p) == 1..Len(RoomsOf(data, DeviceAt(data, p)))
AccessoryIndexes(p, r) == 1..Len(RoomsOf(data, DeviceAt(data, p))[r].accessories)

DeviceSensorsAdded == sensor_pc # "start"
LeakSensorsAdded == sensor_pc \in {"accessory", "done"}
AccessorySensorsAdded == sensor_pc = "done"

\* C8: a LyricSensor exists for a device and a DEVICE_SENSORS descriptor exactly
\* when the first call has run and the descriptor's suitable_fn is truthy for
\* the device; a LyricAccessorySensor exists for a room, an accessory and an
\* ACCESSORY_SENSORS descriptor exactly when the third call has run and
\* suitable_fn(room, accessory) is true.
C8_SuitableEntitiesOnly ==
    /\ \A p \in DeviceIndexes : \A k \in 1..Len(DEVICE_SENSORS) :
          EntitiesFor(sensor_added, "LyricSensor", p, 0, 0, DEVICE_SENSORS[k].key) # {}
            <=> /\ DeviceSensorsAdded
                /\ Truthy(DeviceSensorSuitable(DEVICE_SENSORS[k].key, DeviceAt(data, p)))
    /\ \A p \in DeviceIndexes : \A r \in RoomIndexes(p) : \A a \in AccessoryIndexes(p, r) :
          \A k \in 1..Len(ACCESSORY_SENSORS) :
            LET room == RoomsOf(data, DeviceAt(data, p))[r]
                accessory == room.accessories[a]
            IN  EntitiesFor(sensor_added, "LyricAccessorySensor", p, room.id,
                            accessory.id, ACCESSORY_SENSORS[k].key) # {}
                  <=> /\ AccessorySensorsAdded
                      /\ Truthy(AccessorySensorSuitable(ACCESSORY_SENSORS[k].key,
                                                        room, accessory))

\* setup is over, a device has a suitable and an unsuitable thermostat
\* descriptor, and a room has a suitable and an unsuitable accessory
C8_Witness ==
    /\ sensor_pc = "done"
    /\ \E p \in DeviceIndexes :
          /\ EntitiesFor(sensor_added, "LyricSensor", p, 0, 0, "setpoint_status") # {}
          /\ EntitiesFor(sensor_added, "LyricSensor", p, 0, 0, "indoor_temperature") = {}
          /\ Get(DeviceAt(data, p).attributes, "indoorTemperature") = IntVal(0)
    /\ \E p \in DeviceIndexes :
          /\ EntitiesFor(sensor_added, "LyricAccessorySensor", p, 0, 1, "room_humidity") # {}
          /\ EntitiesFor(sensor_added, "LyricAccessorySensor", p, 0, 0, "room_humidity") = {}
          /\ RoomsOf(data, DeviceAt(data, p))[1].accessories[1].type = "Thermostat"

NumDevices == Cardinality(DeviceIndexes)

\* C9 as stated: once the leak sensors (binary sensors) are set up, every device
\* has exactly one entity per LEAK_SENSORS (DEVICE_BINARY_SENSORS) descriptor,
\* so each group counts devices x descriptors entities.
C9_RegisteredUnconditionally ==
    /\ LeakSensorsAdded =>
          /\ \A p \in DeviceIndexes : \A k \in 1..Len(LEAK_SENSORS) :
                Cardinality(EntitiesFor(sensor_added, "LyricLeakSensor", p, 0, 0,
                                        LEAK_SENSORS[k].key)) = 1
          /\ Cardinality({ i \in 1..Len(sensor_added) :
                             sensor_added[i].cls = "LyricLeakSensor" })
                = NumDevices * Len(LEAK_SENSORS)
    /\ binary_pc # "start" =>
          /\ \A p \in DeviceIndexes : \A k \in 1..Len(DEVICE_BINARY_SENSORS) :
                Cardinality(EntitiesFor(binary_added, "LyricLeakBinarySensor", p, 0, 0,
                                        DEVICE_BINARY_SENSORS[k].key)) = 1
          /\ Len(binary_added) = NumDevices * Len(DEVICE_BINARY_SENSORS)

\* the attribute each LEAK_SENSORS value_fn reads
UnderlyingAttribute(key) ==
    CASE key \in {"temperature", "humidity"} -> "currentSensorReadings"
      [] key \in {"WarnTempMax", "WarnTempMin", "WarnHumMax", "WarnHumMin"} -> "deviceSettings"
      [] key = "Battery" -> "batteryRemaining"
      [] key = "WiFi" -> "wifiSignalStrength"
      [] key = "LastCheckin" -> "lastCheckin"

ReadMade == read # NoRead

\* C10 as stated: native_value of a registered leak sensor whose device lacks
\* the underlying attribute is None, and nothing is raised.
C10_AbsentAttributeReadsNone ==
    (ReadMade /\ UnderlyingAttribute(read.key)
                    \notin DOMAIN DeviceAt(data, <<read.loc, read.dev>>).attributes)
        => read.value = None

(***************************************************************************)
(* Properties of the entity constructors                                   *)
(***************************************************************************)
\* the keys of the descriptors whose device class is TEMPERATURE, and HUMIDITY
TemperatureKeys ==
    { "indoor_temperature", "outdoor_temperature", "room_temperature",
      "temperature", "WarnTempMax", "WarnTempMin" }

HumidityKeys ==
    { "indoor_humidity", "outdoor_humidity", "room_humidity",
      "humidity", "WarnHumMax", "WarnHumMin" }

UnitsAttribute(e) == Get(DeviceAt(data, <<e.loc, e.dev>>).attributes, "units")

\* C11: every LyricSensor, LyricLeakSensor and LyricAccessorySensor of a
\* TEMPERATURE descriptor has the unit Fahrenheit when the (parent) device's
\* units is "Fahrenheit" and Celsius for every other value, an absent one
\* included; for any other descriptor the constructor sets no temperature unit:
\* percent for the HUMIDITY descriptors of LyricLeakSensor, nothing otherwise.
C11_TemperatureUnitFollowsDeviceUnits ==
    \A i \in 1..Len(sensor_added) :
        LET e == sensor_added[i]
        IN  /\ e.key \in TemperatureKeys =>
                 /\ UnitsAttribute(e) = StrVal("Fahrenheit") => e.attr_unit = FAHRENHEIT
                 /\ UnitsAttribute(e) # StrVal("Fahrenheit") => e.attr_unit = CELSIUS
            /\ e.key \notin TemperatureKeys =>
                 e.attr_unit = IF e.cls = "LyricLeakSensor" /\ e.key \in HumidityKeys
                               THEN PERCENTAGE ELSE NoUnit

\* one setup produced a Fahrenheit thermostat sensor, a Celsius leak sensor of
\* a device without units, a Fahrenheit accessory sensor and a percent leak
\* sensor
C11_Witness ==
    /\ sensor_pc = "done"
    /\ \E i, j, k, l \in 1..Len(sensor_added) :
          /\ sensor_added[i].cls = "LyricSensor"
          /\ sensor_added[i].attr_unit = FAHRENHEIT
          /\ sensor_added[j].cls = "LyricLeakSensor"
          /\ sensor_added[j].attr_unit = CELSIUS
          /\ UnitsAttribute(sensor_added[j]) = None
          /\ sensor_added[k].cls = "LyricAccessorySensor"
          /\ sensor_added[k].attr_unit = FAHRENHEIT
          /\ sensor_added[l].cls = "LyricLeakSensor"
          /\ sensor_added[l].attr_unit = PERCENTAGE

(***************************************************************************)
(* The resolver's result against the instant it read                       *)
(***************************************************************************)
\* a < b for timestamps of the same zone: by date, then by time of day
Earlier(a, b) ==
    \/ a.date < b.date
    \/ a.date = b.date /\ TimeLE(a.time, b.time) /\ a.time # b.time

Returned == ResolverCalled /\ call.out.value.t = "datetime"

\* C12 as stated: a returned timestamp is strictly later than the instant read
\* and at most 24 hours after it, and exactly 24 hours after it only when the
\* parsed time of day equals the current time of day.
C12_NextOccurrenceWithinADay ==
    Returned =>
        LET now == call.utcnow
            result == call.out.value
            dayAfter == PlusOneDay(now)
        IN  /\ Earlier(now, result)
            /\ Earlier(result, dayAfter) \/ result = dayAfter
            /\ result = dayAfter <=> ParsedTime = now.time

(***************************************************************************)
(* Unique ids of the entities of one setup run                             *)
(***************************************************************************)
AllAdded == sensor_added \o binary_added

\* C13 as stated: any two entities created in one setup run have different
\* unique ids.
C13_UniqueIdsDistinct ==
    \A i, j \in 1..Len(AllAdded) :
        i # j => AllAdded[i].unique_id # AllAdded[j].unique_id

====
